---- MODULE Spec2Model ----
(***************************************************************************)
(* Download queue orchestrator of music-downloader.                        *)
(*                                                                         *)
(* QueueService (in-memory registry, activeDownloads ledger, processNext   *)
(* scheduler) and YoutubeService (one yt-dlp child process per download,   *)
(* activeProcesses handle map, SIGSTOP/SIGCONT/SIGTERM control).           *)
(*                                                                         *)
(* Every async method is cut at its awaits: the code up to the first await *)
(* runs inside the action that calls the method, each continuation is a    *)
(* suspended task in `tasks` (or a stage of an `adds` entry) that a later  *)
(* action resumes.  Event-emitter listeners run synchronously inside the   *)
(* emitting action, as in Node.                                            *)
(***************************************************************************)
EXTENDS Integers, Sequences, FiniteSets, Bags, TLC

\* ---------------------------------------------------------------- bounds
MaxJobs == 3          \* job ids that exist
MaxProcs == 2         \* yt-dlp download processes ever spawned
MaxRetries == 1       \* successful retry() calls
MaxErrChunks == 1     \* non-WARNING stderr chunks one process writes
MaxLimit == 2         \* largest configured maxConcurrent
MaxReleased == 3      \* released counts up to "3 or more"

\* what one behaviour may contain (the specifications below choose among these)
MaxAdds == 2          \* add() calls
MaxOps == 2           \* pause, cancel and retry requests and stderr chunks

MaxBatch == 3         \* URLs in one addBatch() call
MaxClients == 2       \* connections to GET /api/download/progress

Urls == {1, 2, 3}
PlaylistMembers == <<1, 2, 3>>    \* what getInfo resolves the playlist URL to
PVals == {50, 100}                \* percentages a stdout chunk can carry
InfoHasChannel == {1, 2}          \* urls whose getInfo entry names the uploader

DEFAULT_MAX_CONCURRENT == 2

VARIABLES
  queue,            \* QueueService.queue: Map in insertion order, as a sequence of items
  activeDownloads,  \* QueueService.activeDownloads
  activeProcesses,  \* YoutubeService.activeProcesses: id -> handle
  procs,            \* the child processes spawned by download(), by spawn order
  history,          \* downloads table: id -> row
  tasks,            \* bag of suspended continuations (awaits not yet resumed)
  adds,             \* add() calls in flight, each at its stage
  calls,            \* number of add() calls so far
  returned,         \* what the add() call that returned in the last step returned
  ops,              \* pause, cancel and retry requests and stderr chunks so far
  budget,           \* what the behaviour may contain: [adds, created, ops]
  emitted,          \* events QueueService emitted during the last step
  clock,            \* number of items created so far (orders createdAt)
  nextId,           \* next uuid
  maxConcurrent,    \* settings.maxConcurrent in the settings table
  cachedSettings,   \* SettingsService.cachedSettings: its maxConcurrent, NoSettings for null
  released,         \* id -> ledger decrements since the job's last start
  cancelFrom,       \* id -> status the job had when cancel(id) last ran ("none" before)
  sseClients,       \* connection -> its place in the controller's sseClients and what
                    \* was written to its response
  cancelAllCall     \* the cancelAll() call: its stage, loop position, count, idsToRemove
                    \* (had: the ids in the queue at the call; solo: no add() call
                    \* was in flight at the call and none can follow)

vars == <<queue, activeDownloads, activeProcesses, procs, history, tasks, adds,
          calls, returned, ops, budget, emitted, clock, nextId, maxConcurrent,
          cachedSettings, released, cancelFrom, sseClients, cancelAllCall>>

JobIds == 1..MaxJobs
NoHandle == [proc |-> 0, paused |-> FALSE]
NoRow == [url |-> 0, status |-> "none", pl |-> 0]

\* no cancelAll() call has been made
NoCancelAll == [st |-> "none", cur |-> 0, pos |-> 0, count |-> 0, ids |-> <<>>,
                had |-> {}, solo |-> FALSE]

NoResult == [n |-> 0, force |-> FALSE, pl |-> 0, created |-> <<>>, skipped |-> <<>>]

NewItem(id, url, createdAt, pl, channel) ==
  [id |-> id, url |-> url, status |-> "pending", progress |-> 0,
   createdAt |-> createdAt, pl |-> pl, channel |-> channel, err |-> FALSE]

Active == {"pending", "downloading", "paused"}
Terminal == {"completed", "error", "cancelled"}

\* ------------------------------------------------------- Map operations
Idx(q, id) ==
  IF \E i \in 1..Len(q) : q[i].id = id
  THEN CHOOSE i \in 1..Len(q) : q[i].id = id
  ELSE 0

Has(q, id) == Idx(q, id) # 0

Get(q, id) == q[Idx(q, id)]

StatusOf(q, id) == IF Has(q, id) THEN Get(q, id).status ELSE "absent"

ProgressOf(q, id) == IF Has(q, id) THEN Get(q, id).progress ELSE 0

\* Map.set: an existing key keeps its position, a new key goes last
MapSet(q, item) ==
  IF Has(q, item.id) THEN [q EXCEPT ![Idx(q, item.id)] = item] ELSE Append(q, item)

MapDelete(q, id) == SelectSeq(q, LAMBDA e : e.id # id)

SetStatus(q, id, s) == [q EXCEPT ![Idx(q, id)].status = s]

\* ------------------------------------------------------ suspended tasks
Task(k, id, snap) == [kind |-> k, id |-> id, snap |-> snap]

\* A continuation holds a reference to the item object it read.  When the
\* Map entry is deleted or replaced by a new object, the held object keeps
\* the status it had: snap turns from "live" into that status.
Detach(B, id, st) ==
  LET F(t) == IF t.id = id /\ t.snap = "live" THEN [t EXCEPT !.snap = st] ELSE t
      img == {F(t) : t \in DOMAIN B}
      cnt(u) == (IF u \in DOMAIN B /\ F(u) = u THEN B[u] ELSE 0)
              + (IF u.id = id /\ u.snap = st /\ [u EXCEPT !.snap = "live"] \in DOMAIN B
                 THEN B[[u EXCEPT !.snap = "live"]] ELSE 0)
  IN [u \in img |-> cnt(u)]

DetachIf(B, q, id) == IF Has(q, id) THEN Detach(B, id, Get(q, id).status) ELSE B

Spawned(B, t) == B (+) SetToBag({t})

Resumed(B, t) == B (-) SetToBag({t})

\* status the spread {...item} of a continuation carries
Payload(q, t) == IF t.snap = "live" THEN StatusOf(q, t.id) ELSE t.snap

\* ---------------------------------------------------------------- events
Ev(type, id, status, progress, q) ==
  [type |-> type, id |-> id, status |-> status, progress |-> progress,
   was |-> StatusOf(q, id), wasProgress |-> ProgressOf(q, id)]

\* ------------------------------------------------------- durable store
\* UPDATE downloads SET status = ... WHERE id = ...: no row, no effect
UpdateStatus(h, id, s) ==
  IF h[id].status = "none" THEN h ELSE [h EXCEPT ![id].status = s]

\* ------------------------------------------------------- progress stream
Clients == 1..MaxClients

\* a connection that has not been made yet
NoClient == [st |-> "none", stream |-> <<>>]

\* JSON.stringify of an event payload: the fields of the item
Message(e) == [event |-> e.type, id |-> e.id, status |-> e.status, progress |-> e.progress]

\* the events of the queue the controller subscribes to
Forwarded == {"progress", "statusChange", "complete", "error", "added", "removed"}

Messages(evs) ==
  LET fw == SelectSeq(evs, LAMBDA e : e.type \in Forwarded)
  IN [k \in 1..Len(fw) |-> Message(fw[k])]

\* the 'init' message: getQueue() serialized
InitMessage(q) ==
  [event |-> "init",
   items |-> [i \in 1..Len(q) |-> [id |-> q[i].id, status |-> q[i].status,
                                   progress |-> q[i].progress]]]

\* variant of the broadcast below in which a write to a destroyed socket
\* throws: the clients after it in the Set get nothing
BroadcastStopsAtLost(cl, evs) ==
  [c \in DOMAIN cl |->
     IF cl[c].st = "open" /\ \A d \in 1..(c - 1) : cl[d].st # "lost"
     THEN [cl[c] EXCEPT !.stream = @ \o Messages(evs)]
     ELSE cl[c]]

\* broadcastSSE for each event of a step: client.write(message) for every
\* response in sseClients.  The return value of write (false when the client
\* is slow and the message is buffered) is ignored; what is written to a
\* destroyed socket is dropped.
Broadcast(cl, evs) ==
  [c \in DOMAIN cl |->
     IF cl[c].st = "open"
     THEN [cl[c] EXCEPT !.stream = @ \o Messages(evs)]
     ELSE cl[c]]

\* the six listeners of the controller run inside every emit
Deliver == sseClients' = Broadcast(sseClients, emitted')

\* ------------------------------------------------------------- settings
NoSettings == 0

\* what a getAll() query resolves with: the row its SELECT read when it ran,
\* or the row as it is now when the SELECT runs as the query resolves
Selected(t) == IF t.id # 0 THEN t.id ELSE maxConcurrent

\* settings.maxConcurrent || DEFAULT_MAX_CONCURRENT
LimitOf(v) == IF v = 0 THEN DEFAULT_MAX_CONCURRENT ELSE v

\* ----------------------------------------------------------------- Init
\* a freshly constructed QueueService and YoutubeService over an empty table
Start ==
  /\ queue = <<>>
  /\ activeDownloads = 0
  /\ activeProcesses = [id \in JobIds |-> NoHandle]
  /\ procs = <<>>
  /\ history = [id \in JobIds |-> NoRow]
  /\ tasks = EmptyBag
  /\ adds = <<>>
  /\ calls = 0
  /\ returned = NoResult
  /\ ops = 0
  /\ emitted = <<>>
  /\ clock = 0
  /\ nextId = 1
  /\ maxConcurrent \in 1..MaxLimit
  /\ cachedSettings \in {NoSettings, maxConcurrent}
  /\ released = [id \in JobIds |-> 0]
  /\ cancelFrom = [id \in JobIds |-> "none"]
  /\ sseClients = [c \in Clients |-> NoClient]
  /\ cancelAllCall = NoCancelAll

\* one submission, one control request or stderr chunk, every operation
Init == Start /\ budget = [adds |-> 1, created |-> MaxJobs, ops |-> 1]

\* one submission, MaxOps control requests or stderr chunks
InitOps == Start /\ budget = [adds |-> 1, created |-> MaxJobs, ops |-> MaxOps]

\* MaxAdds concurrent submissions and nothing else from outside
InitAdmit == Start /\ budget = [adds |-> MaxAdds, created |-> MaxJobs, ops |-> 0]

\* one more submission than MaxAdds and nothing else from outside
InitRepeat == Start /\ budget = [adds |-> MaxAdds + 1, created |-> MaxJobs - 1, ops |-> 0]

\* limit 1, MaxAdds submissions, one stderr chunk
InitPair ==
  /\ Start
  /\ maxConcurrent = 1
  /\ budget = [adds |-> MaxAdds, created |-> MaxJobs - 1, ops |-> 1]

\* ---------------------------------------------------- synchronous runs
\* The code of one step works on a bundle: registry, suspended tasks,
\* ledger, the two bookkeeping maps, and pn, the processNext() calls made in
\* the step whose continuation has not run yet.
Bundle == [q |-> queue, t |-> tasks, ad |-> activeDownloads,
           rel |-> released, cf |-> cancelFrom, pn |-> 0, lim |-> cachedSettings]

Release(S, id) ==
  [S EXCEPT !.ad = @ - 1,
            !.rel[id] = IF @ < MaxReleased THEN @ + 1 ELSE @]

\* processNext() up to its await on getCached()
CallProcessNext(S) == [S EXCEPT !.pn = @ + 1]

Limit == LimitOf(maxConcurrent)

HasPending(q) == \E i \in 1..Len(q) : q[i].status = "pending"

\* the for-of over the Map stops at the first pending entry
FirstPending(q) ==
  CHOOSE i \in 1..Len(q) :
    /\ q[i].status = "pending"
    /\ \A j \in 1..(i - 1) : q[j].status # "pending"

\* startDownload(id) up to its await on updateStatus()
StartDownloadSync(S, i) ==
  LET id == S.q[i].id IN
  [S EXCEPT !.ad = @ + 1,
            !.q = [@ EXCEPT ![i].status = "downloading", ![i].progress = 0],
            !.t = Spawned(@, Task(IF S.q[i].channel THEN "sd1" ELSE "sd1d", id, "live")),
            !.rel[id] = 0,
            !.cf[id] = "none"]

\* processNext() from the resolved getCached() on
ProcessNextBody(S) ==
  IF S.ad >= LimitOf(S.lim) THEN S
  ELSE IF HasPending(S.q) THEN StartDownloadSync(S, FirstPending(S.q))
  ELSE S

\* End of the step.  With the settings cached, getCached() resolves without
\* I/O and the continuations of the processNext() calls run as microtasks
\* right after the synchronous code; with a null cache each call waits for
\* its own getAll() query.
RECURSIVE Settle(_)
Settle(S) ==
  IF S.pn = 0 THEN S
  ELSE IF cachedSettings # NoSettings
  THEN Settle(ProcessNextBody([S EXCEPT !.pn = @ - 1]))
  ELSE Settle([S EXCEPT !.pn = @ - 1, !.t = Spawned(@, Task("pn", 0, "none"))])

Commit(S0) ==
  LET S == Settle(S0) IN
  /\ queue' = S.q
  /\ tasks' = S.t
  /\ activeDownloads' = S.ad
  /\ released' = S.rel
  /\ cancelFrom' = S.cf

\* processNext() when its getAll() query has resolved
ProcessNextResume(t) ==
  /\ t.kind = "pn"
  /\ cachedSettings' = Selected(t)
  /\ Commit(ProcessNextBody([Bundle EXCEPT !.t = Resumed(@, t), !.lim = Selected(t)]))
  /\ emitted' = <<>>
  /\ returned' = NoResult
  /\ UNCHANGED <<activeProcesses, procs, history, adds, calls, ops, clock, nextId,
                 maxConcurrent, budget>>
  /\ Deliver
  /\ UNCHANGED cancelAllCall

\* ------------------------------------------------------- startDownload
\* youtubeService.download() at spawn(): the child process and its handle
SpawnProc(id) ==
  /\ Len(procs) < MaxProcs
  /\ procs' = Append(procs, [id |-> id, st |-> "run", last |-> 0, nerr |-> 0])
  /\ activeProcesses' = [activeProcesses EXCEPT
                           ![id] = [proc |-> Len(procs) + 1, paused |-> FALSE]]

\* startDownload() when updateStatus(id, 'downloading') has resolved.  An
\* item that has title and channel (task sd1) goes straight into download();
\* with the settings cached the spawn follows without I/O in between.  An
\* item without channel (task sd1d) waits for getVideoDetails().
StartDownloadSaved(t) ==
  LET direct == t.kind = "sd1" /\ cachedSettings # NoSettings IN
  /\ t.kind \in {"sd1", "sd1d"}
  /\ history' = UpdateStatus(history, t.id, "downloading")
  /\ emitted' = <<Ev("statusChange", t.id, Payload(queue, t), 0, queue)>>
  /\ IF direct
     THEN /\ SpawnProc(t.id)
          /\ tasks' = Resumed(tasks, t)
     ELSE /\ tasks' = Spawned(Resumed(tasks, t),
                           Task(IF t.kind = "sd1d" THEN "sd2d" ELSE "sd2", t.id, t.snap))
          /\ UNCHANGED <<procs, activeProcesses>>
  /\ returned' = NoResult
  /\ UNCHANGED <<queue, activeDownloads, adds, calls, ops, clock, nextId, maxConcurrent, budget,
                 cachedSettings, released, cancelFrom>>
  /\ Deliver
  /\ UNCHANGED cancelAllCall

\* startDownload() when getVideoDetails() (and a getAll() of download() on
\* a null cache) has resolved: the second statusChange, then the spawn
DownloadSpawn(t) ==
  /\ t.kind \in {"sd2", "sd2d"}
  /\ SpawnProc(t.id)
  /\ emitted' = IF t.kind = "sd2d"
                THEN <<Ev("statusChange", t.id, Payload(queue, t), 0, queue)>>
                ELSE <<>>
  /\ cachedSettings' = IF cachedSettings = NoSettings THEN maxConcurrent ELSE cachedSettings
  /\ tasks' = Resumed(tasks, t)
  /\ returned' = NoResult
  /\ UNCHANGED <<queue, activeDownloads, history, adds, calls, ops, clock, nextId,
                 maxConcurrent, budget, released, cancelFrom>>
  /\ Deliver
  /\ UNCHANGED cancelAllCall

\* ------------------------------------------- completion and error handling
\* handleError(id) up to its await; with no item it runs to its end
HandleErrorSync(S, id) ==
  IF Has(S.q, id)
  THEN [S EXCEPT !.q = [@ EXCEPT ![Idx(S.q, id)].status = "error",
                                 ![Idx(S.q, id)].err = TRUE],
                 !.t = Spawned(@, Task("he", id, "live"))]
  ELSE CallProcessNext(Release(S, id))

\* handleComplete(id) up to its await; with no item it runs to its end
HandleCompleteSync(S, id) ==
  IF Has(S.q, id)
  THEN [S EXCEPT !.q = [@ EXCEPT ![Idx(S.q, id)].status = "completed",
                                 ![Idx(S.q, id)].progress = 100],
                 !.t = Spawned(@, Task("hc", id, "live"))]
  ELSE CallProcessNext(Release(S, id))

\* handleError() when updateStatus(id, 'error') has resolved
HandleErrorSaved(t) ==
  /\ t.kind = "he"
  /\ history' = UpdateStatus(history, t.id, "error")
  /\ emitted' = <<Ev("error", t.id, Payload(queue, t), 0, queue)>>
  /\ Commit(CallProcessNext(Release([Bundle EXCEPT !.t = Resumed(@, t)], t.id)))
  /\ returned' = NoResult
  /\ UNCHANGED <<activeProcesses, procs, adds, calls, ops, clock, nextId, maxConcurrent, budget,
                 cachedSettings>>
  /\ Deliver
  /\ UNCHANGED cancelAllCall

\* variant of the continuation below that ends without calling processNext()
HandleCompleteSavedNoNext(t) ==
  /\ t.kind = "hc"
  /\ history' = UpdateStatus(history, t.id, "completed")
  /\ emitted' = <<Ev("complete", t.id, Payload(queue, t), 100, queue)>>
  /\ Commit(Release([Bundle EXCEPT !.t = Resumed(@, t)], t.id))
  /\ returned' = NoResult
  /\ UNCHANGED <<activeProcesses, procs, adds, calls, ops, clock, nextId, maxConcurrent, budget,
                 cachedSettings>>
  /\ Deliver
  /\ UNCHANGED cancelAllCall

\* handleComplete() when updateStatus(id, 'completed') has resolved
HandleCompleteSaved(t) ==
  /\ t.kind = "hc"
  /\ history' = UpdateStatus(history, t.id, "completed")
  /\ emitted' = <<Ev("complete", t.id, Payload(queue, t), 100, queue)>>
  /\ Commit(CallProcessNext(Release([Bundle EXCEPT !.t = Resumed(@, t)], t.id)))
  /\ returned' = NoResult
  /\ UNCHANGED <<activeProcesses, procs, adds, calls, ops, clock, nextId, maxConcurrent, budget,
                 cachedSettings>>
  /\ Deliver
  /\ UNCHANGED cancelAllCall

\* ------------------------------------------------------- rejected writes
\* historyService.updateStatus() has no catch of its own; when its query
\* rejects, the async function awaiting it ends there with a rejected
\* promise that no caller handles.

\* startDownload() when updateStatus(id, 'downloading') has rejected: the
\* await is outside the try, nothing after it runs
StartDownloadWriteFailed(t) ==
  /\ t.kind \in {"sd1", "sd1d"}
  /\ ops < budget.ops
  /\ ops' = ops + 1
  /\ tasks' = Resumed(tasks, t)
  /\ emitted' = <<>>
  /\ returned' = NoResult
  /\ UNCHANGED <<queue, activeDownloads, activeProcesses, procs, history, adds, calls, clock,
                 nextId, maxConcurrent, budget, cachedSettings, released, cancelFrom>>
  /\ Deliver
  /\ UNCHANGED cancelAllCall

\* handleComplete() when updateStatus(id, 'completed') has rejected: no
\* 'complete', no decrement, no processNext()
HandleCompleteWriteFailed(t) ==
  /\ t.kind \in {"hc"}
  /\ ops < budget.ops
  /\ ops' = ops + 1
  /\ tasks' = Resumed(tasks, t)
  /\ emitted' = <<>>
  /\ returned' = NoResult
  /\ UNCHANGED <<queue, activeDownloads, activeProcesses, procs, history, adds, calls, clock,
                 nextId, maxConcurrent, budget, cachedSettings, released, cancelFrom>>
  /\ Deliver
  /\ UNCHANGED cancelAllCall

\* handleError() when updateStatus(id, 'error') has rejected: no 'error',
\* no decrement, no processNext()
HandleErrorWriteFailed(t) ==
  /\ t.kind \in {"he"}
  /\ ops < budget.ops
  /\ ops' = ops + 1
  /\ tasks' = Resumed(tasks, t)
  /\ emitted' = <<>>
  /\ returned' = NoResult
  /\ UNCHANGED <<queue, activeDownloads, activeProcesses, procs, history, adds, calls, clock,
                 nextId, maxConcurrent, budget, cachedSettings, released, cancelFrom>>
  /\ Deliver
  /\ UNCHANGED cancelAllCall

\* -------------------------------------------------------- worker process
Alive(pr) == pr.st \in {"run", "stop", "term"}

Closed(pr) == [pr EXCEPT !.st = "closed", !.last = 0, !.nerr = 0]

\* process.kill(sig) on a child: SIGSTOP suspends a running process,
\* SIGCONT continues a suspended one, SIGTERM ends a running one; a
\* suspended process does not act on SIGTERM
Signal(st, sig) ==
  CASE sig = "SIGSTOP" /\ st = "run" -> "stop"
    [] sig = "SIGCONT" /\ st = "stop" -> "run"
    [] sig = "SIGTERM" /\ st = "run" -> "term"
    [] OTHER -> st

RECURSIVE Signalled(_, _)
Signalled(st, sigs) ==
  IF sigs = <<>> THEN st ELSE Signalled(Signal(st, Head(sigs)), Tail(sigs))

\* variant of the signals below without the SIGCONT
CancelSignalsTermOnly(h) == <<"SIGTERM">>

\* youtubeService.cancel(): the signals sent to the process behind a handle
CancelSignals(h) == IF h.paused THEN <<"SIGCONT", "SIGTERM">> ELSE <<"SIGTERM">>

\* stdout handler: the monotonicity guard on the parsed percentage
ParsedEmits(progress, lastProgress) == progress > lastProgress

ProgressStatus(progress) == IF progress < 100 THEN "downloading" ELSE "converting"

\* a stdout chunk carrying percentage v, and the queue's 'progress' listener
Stdout(p, v) ==
  LET pr == procs[p]
      id == pr.id
  IN /\ Alive(pr)
     /\ IF ParsedEmits(v, pr.last)
        THEN /\ procs' = [procs EXCEPT ![p].last = v]
             /\ IF Has(queue, id)
                THEN /\ queue' = [queue EXCEPT ![Idx(queue, id)].progress = v,
                                               ![Idx(queue, id)].status = ProgressStatus(v)]
                     /\ emitted' = <<Ev("progress", id, ProgressStatus(v), v, queue)>>
                ELSE /\ UNCHANGED queue
                     /\ emitted' = <<>>
        ELSE /\ UNCHANGED <<procs, queue>>
             /\ emitted' = <<>>
     /\ returned' = NoResult
     /\ UNCHANGED <<activeDownloads, activeProcesses, history, tasks, adds, calls, ops, clock,
                    nextId, maxConcurrent, budget, cachedSettings, released, cancelFrom>>
     /\ Deliver
     /\ UNCHANGED cancelAllCall

\* a stderr chunk without 'WARNING': 'error' is emitted, the process goes on
Stderr(p) ==
  LET pr == procs[p] IN
  /\ Alive(pr)
  /\ pr.nerr < MaxErrChunks
  /\ ops < budget.ops
  /\ ops' = ops + 1
  /\ procs' = [procs EXCEPT ![p].nerr = @ + 1]
  /\ Commit(HandleErrorSync(Bundle, pr.id))
  /\ emitted' = <<>>
  /\ returned' = NoResult
  /\ UNCHANGED <<activeProcesses, history, adds, calls, clock, nextId, maxConcurrent, budget,
                 cachedSettings>>
  /\ Deliver
  /\ UNCHANGED cancelAllCall

\* 'close' with exit code 0: handle dropped, 'complete' emitted
CloseOk(p) ==
  LET pr == procs[p] IN
  /\ pr.st \in {"run", "term"}
  /\ procs' = [procs EXCEPT ![p] = Closed(pr)]
  /\ activeProcesses' = [activeProcesses EXCEPT ![pr.id] = NoHandle]
  /\ Commit(HandleCompleteSync(Bundle, pr.id))
  /\ emitted' = <<>>
  /\ returned' = NoResult
  /\ UNCHANGED <<history, adds, calls, ops, clock, nextId, maxConcurrent, budget, cachedSettings>>
  /\ Deliver
  /\ UNCHANGED cancelAllCall

\* 'close' with a non-zero code (or killed by a signal): handle dropped,
\* 'error' emitted, and the rejected promise takes startDownload() into
\* its catch, which calls handleError() again
CloseFail(p) ==
  LET pr == procs[p] IN
  /\ pr.st \in {"run", "term"}
  /\ procs' = [procs EXCEPT ![p] = Closed(pr)]
  /\ activeProcesses' = [activeProcesses EXCEPT ![pr.id] = NoHandle]
  /\ Commit(HandleErrorSync(HandleErrorSync(Bundle, pr.id), pr.id))
  /\ emitted' = <<>>
  /\ returned' = NoResult
  /\ UNCHANGED <<history, adds, calls, ops, clock, nextId, maxConcurrent, budget, cachedSettings>>
  /\ Deliver
  /\ UNCHANGED cancelAllCall

\* ---------------------------------------------------- control operations
\* pause(id): youtubeService.pause() with its 'paused' listener, up to the await
Pause(id) ==
  LET h == activeProcesses[id] IN
  /\ StatusOf(queue, id) = "downloading"
  /\ ops < budget.ops
  /\ ops' = ops + 1
  /\ IF h.proc # 0 /\ ~h.paused
     THEN /\ procs' = [procs EXCEPT ![h.proc].st = "stop"]
          /\ activeProcesses' = [activeProcesses EXCEPT ![id].paused = TRUE]
          /\ queue' = SetStatus(queue, id, "paused")
          /\ emitted' = <<Ev("statusChange", id, "paused", ProgressOf(queue, id), queue)>>
          /\ tasks' = Spawned(tasks, Task("pz", id, "live"))
     ELSE /\ emitted' = <<>>
          /\ UNCHANGED <<procs, activeProcesses, queue, tasks>>
  /\ returned' = NoResult
  /\ UNCHANGED <<activeDownloads, history, adds, calls, clock, nextId, maxConcurrent, budget,
                 cachedSettings, released, cancelFrom>>
  /\ Deliver
  /\ UNCHANGED cancelAllCall

\* pause() when updateStatus(id, 'paused') has resolved
PauseSaved(t) ==
  /\ t.kind = "pz"
  /\ history' = UpdateStatus(history, t.id, "paused")
  /\ emitted' = <<Ev("statusChange", t.id, Payload(queue, t), ProgressOf(queue, t.id), queue)>>
  /\ tasks' = Resumed(tasks, t)
  /\ returned' = NoResult
  /\ UNCHANGED <<queue, activeDownloads, activeProcesses, procs, adds, calls, ops, clock,
                 nextId, maxConcurrent, budget, cachedSettings, released, cancelFrom>>
  /\ Deliver
  /\ UNCHANGED cancelAllCall

\* resume(id): youtubeService.resume() with its 'resumed' listener, up to the await
Resume(id) ==
  LET h == activeProcesses[id] IN
  /\ StatusOf(queue, id) = "paused"
  /\ IF h.proc # 0 /\ h.paused
     THEN /\ procs' = [procs EXCEPT ![h.proc].st = "run"]
          /\ activeProcesses' = [activeProcesses EXCEPT ![id].paused = FALSE]
          /\ queue' = SetStatus(queue, id, "downloading")
          /\ emitted' = <<Ev("statusChange", id, "downloading", ProgressOf(queue, id), queue)>>
          /\ tasks' = Spawned(tasks, Task("rs", id, "live"))
     ELSE /\ emitted' = <<>>
          /\ UNCHANGED <<procs, activeProcesses, queue, tasks>>
  /\ returned' = NoResult
  /\ UNCHANGED <<activeDownloads, history, adds, calls, ops, clock, nextId, maxConcurrent,
                 budget, cachedSettings, released, cancelFrom>>
  /\ Deliver
  /\ UNCHANGED cancelAllCall

\* resume() when updateStatus(id, 'downloading') has resolved
ResumeSaved(t) ==
  /\ t.kind = "rs"
  /\ history' = UpdateStatus(history, t.id, "downloading")
  /\ emitted' = <<Ev("statusChange", t.id, Payload(queue, t), ProgressOf(queue, t.id), queue)>>
  /\ tasks' = Resumed(tasks, t)
  /\ returned' = NoResult
  /\ UNCHANGED <<queue, activeDownloads, activeProcesses, procs, adds, calls, ops, clock,
                 nextId, maxConcurrent, budget, cachedSettings, released, cancelFrom>>
  /\ Deliver
  /\ UNCHANGED cancelAllCall

\* variant of the rejection below in which youtubeService.pause() is called
\* before the status is looked at
PauseRejectedAfterSignal(id) ==
  LET h == activeProcesses[id] IN
  /\ StatusOf(queue, id) # "downloading"
  /\ ops < budget.ops
  /\ ops' = ops + 1
  /\ IF h.proc # 0 /\ ~h.paused
     THEN /\ procs' = [procs EXCEPT ![h.proc].st = "stop"]
          /\ activeProcesses' = [activeProcesses EXCEPT ![id].paused = TRUE]
     ELSE UNCHANGED <<procs, activeProcesses>>
  /\ emitted' = <<>>
  /\ returned' = NoResult
  /\ UNCHANGED <<queue, activeDownloads, history, tasks, adds, calls, clock, nextId,
                 maxConcurrent, budget, cachedSettings, released, cancelFrom>>
  /\ Deliver
  /\ UNCHANGED cancelAllCall

\* pause(id) of an id that is not in the queue or whose status is not
\* 'downloading': the call throws before anything is touched
PauseRejected(id) ==
  /\ StatusOf(queue, id) # "downloading"
  /\ ops < budget.ops
  /\ ops' = ops + 1
  /\ emitted' = <<>>
  /\ returned' = NoResult
  /\ UNCHANGED <<queue, activeDownloads, activeProcesses, procs, history, tasks, adds, calls,
                 clock, nextId, maxConcurrent, budget, cachedSettings, released, cancelFrom>>
  /\ Deliver
  /\ UNCHANGED cancelAllCall

\* resume(id) of an id that is not in the queue or whose status is not
\* 'paused': the call throws before anything is touched
ResumeRejected(id) ==
  /\ StatusOf(queue, id) # "paused"
  /\ ops < budget.ops
  /\ ops' = ops + 1
  /\ emitted' = <<>>
  /\ returned' = NoResult
  /\ UNCHANGED <<queue, activeDownloads, activeProcesses, procs, history, tasks, adds, calls,
                 clock, nextId, maxConcurrent, budget, cachedSettings, released, cancelFrom>>
  /\ Deliver
  /\ UNCHANGED cancelAllCall

\* cancel(id) up to its await (pending item) or to its end (any other status).
\* youtubeService.cancel() signals the process behind the handle, drops the
\* handle and emits 'cancelled', whose listener sets the status and suspends.
Cancel(id) ==
  LET st == StatusOf(queue, id)
      h == activeProcesses[id]
      running == st \in {"downloading", "paused"}
      killed == running /\ h.proc # 0
      S0 == [Bundle EXCEPT !.cf[id] = st]
      S1 == IF killed
            THEN [S0 EXCEPT !.q = SetStatus(@, id, "cancelled"),
                            !.t = Spawned(@, Task("cl", id, "live"))]
            ELSE S0
      S2 == IF running THEN Release(S1, id) ELSE S1
  IN /\ Has(queue, id)
     /\ ops < budget.ops
     /\ ops' = ops + 1
     /\ procs' = IF killed
                 THEN [procs EXCEPT ![h.proc].st = Signalled(@, CancelSignals(h))]
                 ELSE procs
     /\ activeProcesses' = IF killed THEN [activeProcesses EXCEPT ![id] = NoHandle]
                           ELSE activeProcesses
     /\ IF st = "pending"
        THEN /\ Commit([S2 EXCEPT !.t = Spawned(@, Task("cp", id, "live"))])
             /\ emitted' = <<>>
        ELSE /\ Commit(CallProcessNext([S2 EXCEPT !.q = MapDelete(@, id),
                                                  !.t = DetachIf(@, S2.q, id)]))
             /\ emitted' = <<Ev("removed", id, "absent", 0, S2.q)>>
     /\ returned' = NoResult
     /\ UNCHANGED <<history, adds, calls, clock, nextId, maxConcurrent, budget, cachedSettings>>
     /\ Deliver
     /\ UNCHANGED cancelAllCall

\* 'cancelled' listener when updateStatus(id, 'cancelled') has resolved
CancelledSaved(t) ==
  /\ t.kind = "cl"
  /\ history' = UpdateStatus(history, t.id, "cancelled")
  /\ emitted' = <<Ev("statusChange", t.id, Payload(queue, t), 0, queue)>>
  /\ Commit(CallProcessNext(Release([Bundle EXCEPT !.t = Resumed(@, t)], t.id)))
  /\ returned' = NoResult
  /\ UNCHANGED <<activeProcesses, procs, adds, calls, ops, clock, nextId, maxConcurrent, budget,
                 cachedSettings>>
  /\ Deliver
  /\ UNCHANGED cancelAllCall

\* cancel() of a pending item when updateStatus(id, 'cancelled') has resolved
CancelPendingSaved(t) ==
  LET B == Resumed(tasks, t) IN
  /\ t.kind = "cp"
  /\ history' = UpdateStatus(history, t.id, "cancelled")
  /\ emitted' = <<Ev("removed", t.id, "absent", 0, queue)>>
  /\ Commit(CallProcessNext([Bundle EXCEPT !.q = MapDelete(@, t.id),
                                           !.t = DetachIf(B, queue, t.id)]))
  /\ returned' = NoResult
  /\ UNCHANGED <<activeProcesses, procs, adds, calls, ops, clock, nextId, maxConcurrent, budget,
                 cachedSettings>>
  /\ Deliver
  /\ UNCHANGED cancelAllCall

\* ------------------------------------------------------- clearCompleted
\* the continuations that hold one of the items ids keep the object they read
RECURSIVE DetachAll(_, _, _)
DetachAll(B, q, ids) ==
  IF ids = {} THEN B
  ELSE LET id == CHOOSE i \in ids : TRUE
       IN DetachAll(DetachIf(B, q, id), q, ids \ {id})

\* variant of the operation below that also takes the ledger back to the
\* number of entries it leaves
ClearCompletedResetsLedger ==
  LET gone == {queue[i].id : i \in {j \in 1..Len(queue) : queue[j].status \in Terminal}}
      kept == SelectSeq(queue, LAMBDA e : e.status \notin Terminal)
  IN /\ ops < budget.ops
     /\ ops' = ops + 1
     /\ queue' = kept
     /\ tasks' = DetachAll(tasks, queue, gone)
     /\ activeDownloads' = Len(kept)
     /\ emitted' = <<Ev("cleared", 0, "absent", 0, queue)>>
     /\ returned' = NoResult
     /\ UNCHANGED <<activeProcesses, procs, history, adds, calls, clock, nextId,
                    maxConcurrent, budget, cachedSettings, released, cancelFrom>>
     /\ Deliver
     /\ UNCHANGED cancelAllCall

\* clearCompleted(): every entry whose status is completed, error or
\* cancelled is deleted from the Map, then 'cleared' is emitted, to which
\* the controller does not listen
ClearCompleted ==
  LET gone == {queue[i].id : i \in {j \in 1..Len(queue) : queue[j].status \in Terminal}}
  IN /\ ops < budget.ops
     /\ ops' = ops + 1
     /\ queue' = SelectSeq(queue, LAMBDA e : e.status \notin Terminal)
     /\ tasks' = DetachAll(tasks, queue, gone)
     /\ emitted' = <<Ev("cleared", 0, "absent", 0, queue)>>
     /\ returned' = NoResult
     /\ UNCHANGED <<activeDownloads, activeProcesses, procs, history, adds, calls, clock,
                    nextId, maxConcurrent, budget, cachedSettings, released, cancelFrom>>
     /\ Deliver
     /\ UNCHANGED cancelAllCall

\* ------------------------------------------------------------ cancelAll
\* What the loops of cancelAll() work on: the bundle of the step, the
\* processes, the handles and the call itself.
CancelAllRun(ca) == [S |-> Bundle, pr |-> procs, ap |-> activeProcesses, ca |-> ca]

\* The first loop of cancelAll(), from the entry after the last one it
\* visited (the Map iterator follows insertion order, which is the order of
\* createdAt) up to its next await or to its end:
\*   downloading or paused -> youtubeService.cancel(id) (with a handle: signal,
\*                            handle dropped, 'cancelled' listener up to its
\*                            await), activeDownloads--, counted, to be removed
\*   pending               -> await updateStatus(id, 'cancelled')
\*   any other status      -> skipped
RECURSIVE CancelAllLoop(_)
CancelAllLoop(X) ==
  LET rest == {i \in 1..Len(X.S.q) : X.S.q[i].createdAt > X.ca.pos} IN
  IF rest = {}
  THEN [X EXCEPT !.ca.st = "done", !.ca.cur = 0]
  ELSE LET i == CHOOSE k \in rest : \A o \in rest : k <= o
           it == X.S.q[i]
           id == it.id
           h == X.ap[id]
           killed == h.proc # 0
           S1 == IF killed
                 THEN [X.S EXCEPT !.q = SetStatus(@, id, "cancelled"),
                                  !.t = Spawned(@, Task("cl", id, "live"))]
                 ELSE X.S
       IN IF it.status \in {"downloading", "paused"}
          THEN CancelAllLoop(
                 [S |-> Release(S1, id),
                  pr |-> IF killed
                         THEN [X.pr EXCEPT ![h.proc].st = Signalled(@, CancelSignals(h))]
                         ELSE X.pr,
                  ap |-> IF killed THEN [X.ap EXCEPT ![id] = NoHandle] ELSE X.ap,
                  ca |-> [X.ca EXCEPT !.pos = it.createdAt, !.count = @ + 1,
                                      !.ids = Append(@, id)]])
          ELSE IF it.status = "pending"
          THEN [X EXCEPT !.ca.st = "wait", !.ca.cur = id, !.ca.pos = it.createdAt]
          ELSE CancelAllLoop([X EXCEPT !.ca.pos = it.createdAt])

RECURSIVE DeleteAll(_, _)
DeleteAll(q, ids) ==
  IF ids = <<>> THEN q ELSE DeleteAll(MapDelete(q, Head(ids)), Tail(ids))

RECURSIVE RemovedEvents(_, _)
RemovedEvents(ids, q) ==
  IF ids = <<>> THEN <<>>
  ELSE <<Ev("removed", Head(ids), "absent", 0, q)>>
         \o RemovedEvents(Tail(ids), MapDelete(q, Head(ids)))

\* The step ends at the await, or with the second loop: queue.delete(id)
\* and 'removed' for every id collected, and the count is returned.
\* cancelAll() does not call processNext().
CancelAllCommit(X) ==
  /\ procs' = X.pr
  /\ activeProcesses' = X.ap
  /\ cancelAllCall' = X.ca
  /\ returned' = NoResult
  /\ IF X.ca.st = "done"
     THEN /\ Commit([X.S EXCEPT !.q = DeleteAll(@, X.ca.ids),
                                !.t = DetachAll(@, X.S.q,
                                                {X.ca.ids[k] : k \in 1..Len(X.ca.ids)})])
          /\ emitted' = RemovedEvents(X.ca.ids, X.S.q)
     ELSE /\ Commit(X.S)
          /\ emitted' = <<>>

\* cancelAll() up to its first await or to its end
CancelAll ==
  /\ cancelAllCall.st = "none"
  /\ ops < budget.ops
  /\ ops' = ops + 1
  /\ CancelAllCommit(CancelAllLoop(CancelAllRun(
        [NoCancelAll EXCEPT !.had = {queue[i].id : i \in 1..Len(queue)},
                            !.solo = (adds = <<>> /\ calls = budget.adds)])))
  /\ UNCHANGED <<history, adds, calls, clock, nextId, maxConcurrent, budget, cachedSettings>>
  /\ Deliver

\* cancelAll() when the updateStatus(id, 'cancelled') of a pending item has
\* resolved: the id is counted and collected, and the loop goes on
CancelAllSaved ==
  /\ cancelAllCall.st = "wait"
  /\ history' = UpdateStatus(history, cancelAllCall.cur, "cancelled")
  /\ CancelAllCommit(CancelAllLoop(CancelAllRun(
        [cancelAllCall EXCEPT !.count = @ + 1, !.ids = Append(@, cancelAllCall.cur)])))
  /\ UNCHANGED <<adds, calls, ops, clock, nextId, maxConcurrent, budget, cachedSettings>>
  /\ Deliver

RetriesDone == clock - (nextId - 1)

RetriesInFlight ==
  BagCardinality([t \in {u \in DOMAIN tasks : u.kind = "retry"} |-> tasks[t]])

\* variant of the read below that decides on the status held in the queue
RetryReadInMemory(id) ==
  /\ StatusOf(queue, id) \in {"error", "cancelled"}
  /\ RetriesDone + RetriesInFlight < MaxRetries
  /\ ops < budget.ops
  /\ ops' = ops + 1
  /\ tasks' = Spawned(tasks, Task("retry", id, "none"))
  /\ emitted' = <<>>
  /\ returned' = NoResult
  /\ UNCHANGED <<queue, activeDownloads, activeProcesses, procs, history, adds, calls,
                 clock, nextId, maxConcurrent, budget, cachedSettings, released, cancelFrom>>
  /\ Deliver
  /\ UNCHANGED cancelAllCall

\* retry(id) at its getById() read; the call is rejected unless the row
\* says error or cancelled
RetryRead(id) ==
  /\ history[id].status \in {"error", "cancelled"}
  /\ RetriesDone + RetriesInFlight < MaxRetries
  /\ ops < budget.ops
  /\ ops' = ops + 1
  /\ tasks' = Spawned(tasks, Task("retry", id, "none"))
  /\ emitted' = <<>>
  /\ returned' = NoResult
  /\ UNCHANGED <<queue, activeDownloads, activeProcesses, procs, history, adds, calls,
                 clock, nextId, maxConcurrent, budget, cachedSettings, released, cancelFrom>>
  /\ Deliver
  /\ UNCHANGED cancelAllCall

\* retry(id) when getById(id) has resolved with no row or with a row whose
\* status is neither 'error' nor 'cancelled': the call throws
RetryRejected(id) ==
  /\ history[id].status \notin {"error", "cancelled"}
  /\ ops < budget.ops
  /\ ops' = ops + 1
  /\ emitted' = <<>>
  /\ returned' = NoResult
  /\ UNCHANGED <<queue, activeDownloads, activeProcesses, procs, history, tasks, adds, calls,
                 clock, nextId, maxConcurrent, budget, cachedSettings, released, cancelFrom>>
  /\ Deliver
  /\ UNCHANGED cancelAllCall

\* retry() when updateStatus(id, 'pending') has resolved: a new item object
\* (without channel) is set under the old key
RetryInsert(t) ==
  LET id == t.id
      item == NewItem(id, history[id].url, clock + 1, history[id].pl, FALSE)
      B == Resumed(tasks, t)
  IN /\ t.kind = "retry"
     /\ history' = UpdateStatus(history, id, "pending")
     /\ clock' = clock + 1
     /\ emitted' = <<Ev("added", id, "pending", 0, queue)>>
     /\ Commit(CallProcessNext([Bundle EXCEPT !.q = MapSet(@, item),
                                              !.t = DetachIf(B, queue, id)]))
     /\ returned' = NoResult
     /\ UNCHANGED <<activeProcesses, procs, adds, calls, ops, nextId, maxConcurrent, budget,
                    cachedSettings>>
     /\ Deliver
     /\ UNCHANGED cancelAllCall

\* ------------------------------------------------------------ submission
Submissions ==
  {[type |-> "video", members |-> <<u>>] : u \in Urls}
    \cup {[type |-> "playlist", members |-> PlaylistMembers]}

Result(a) == [n |-> a.n, force |-> a.force, pl |-> a.pl,
              created |-> a.created, skipped |-> a.skipped]

Skip(url, reason, existingId) == [url |-> url, reason |-> reason, existingId |-> existingId]

\* variant of existsInMemoryQueue(url) that looks only at started entries
ExistsInMemoryQueueStartedOnly(q, url) ==
  LET hit(i) == q[i].url = url /\ q[i].status \in {"downloading", "paused"} IN
  IF \E i \in 1..Len(q) : hit(i)
  THEN q[CHOOSE i \in 1..Len(q) : hit(i) /\ \A j \in 1..(i - 1) : ~hit(j)].id
  ELSE 0

\* existsInMemoryQueue(url): id of the first entry with the url that is
\* pending, downloading or paused; 0 for null
ExistsInMemoryQueue(q, url) ==
  LET hit(i) == q[i].url = url /\ q[i].status \in Active IN
  IF \E i \in 1..Len(q) : hit(i)
  THEN q[CHOOSE i \in 1..Len(q) : hit(i) /\ \A j \in 1..(i - 1) : ~hit(j)].id
  ELSE 0

\* historyService.existsInQueue(url): newest row of the url that is pending,
\* downloading or paused; 0 for null
ExistsInQueue(h, url) ==
  LET hits == {id \in JobIds : h[id].url = url /\ h[id].status \in Active} IN
  IF hits = {} THEN 0 ELSE CHOOSE id \in hits : \A o \in hits : o <= id

\* historyService.wasDownloadedSuccessfully(url)
WasDownloadedSuccessfully(h, url) ==
  LET hits == {id \in JobIds : h[id].url = url /\ h[id].status = "completed"} IN
  IF hits = {} THEN 0 ELSE CHOOSE id \in hits : \A o \in hits : o <= id

\* variant of the loop below that runs the in-memory check also with force
RECURSIVE SkipInMemoryAlways(_, _)
SkipInMemoryAlways(a, q) ==
  IF a.members = <<>>
  THEN a
  ELSE LET u == Head(a.members)
           m == ExistsInMemoryQueue(q, u)
       IN IF m # 0
          THEN SkipInMemoryAlways([a EXCEPT !.members = Tail(@),
                                            !.skipped = Append(@, Skip(u, "in_queue", m))], q)
          ELSE a

\* the for loop of add() over the members that the in-memory check skips:
\* `continue` keeps the loop running without an await
RECURSIVE SkipInMemory(_, _)
SkipInMemory(a, q) ==
  IF a.members = <<>> \/ a.force
  THEN a
  ELSE LET u == Head(a.members)
           m == ExistsInMemoryQueue(q, u)
       IN IF m # 0
          THEN SkipInMemory([a EXCEPT !.members = Tail(@),
                                      !.skipped = Append(@, Skip(u, "in_queue", m))], q)
          ELSE a

SetAdd(c, a) == IF c > Len(adds) THEN Append(adds, a) ELSE [adds EXCEPT ![c] = a]

DropAdd(c) == [i \in 1..(Len(adds) - 1) |-> IF i < c THEN adds[i] ELSE adds[i + 1]]

RECURSIVE AddedEvents(_, _)
AddedEvents(ids, q) ==
  IF ids = <<>> THEN <<>>
  ELSE <<Ev("added", Head(ids), "pending", 0, q)>> \o AddedEvents(Tail(ids), q)

\* variant of the creation below that leaves the item out of the items array
AddCreateUnreported(c, a) ==
  LET u == Head(a.members) IN
  /\ nextId <= budget.created
  /\ Commit([Bundle EXCEPT !.q = MapSet(@, NewItem(nextId, u, clock + 1, a.pl,
                                                  u \in InfoHasChannel))])
  /\ adds' = SetAdd(c, [a EXCEPT !.st = "save", !.cur = nextId, !.curUrl = u,
                                 !.members = Tail(@)])
  /\ clock' = clock + 1
  /\ nextId' = nextId + 1
  /\ returned' = NoResult
  /\ emitted' = <<>>

\* add(): the item of a member that passed the duplicate checks is created
\* and set in the Map, then historyService.add() is awaited
AddCreate(c, a) ==
  LET u == Head(a.members) IN
  /\ nextId <= budget.created
  /\ Commit([Bundle EXCEPT !.q = MapSet(@, NewItem(nextId, u, clock + 1, a.pl,
                                                  u \in InfoHasChannel))])
  /\ adds' = SetAdd(c, [a EXCEPT !.st = "save", !.cur = nextId, !.curUrl = u,
                                 !.members = Tail(@), !.created = Append(@, nextId)])
  /\ clock' = clock + 1
  /\ nextId' = nextId + 1
  /\ returned' = NoResult
  /\ emitted' = <<>>

\* ---------------------------------------------------------- SSE clients
\* variant of the handler below that writes no 'init' message
ProgressNoSnapshot(c) ==
  /\ sseClients[c].st = "none"
  /\ sseClients' = [sseClients EXCEPT ![c] = [st |-> "open", stream |-> <<>>]]
  /\ emitted' = <<>>
  /\ returned' = NoResult
  /\ UNCHANGED <<queue, activeDownloads, activeProcesses, procs, history, tasks, adds, calls,
                 ops, clock, nextId, maxConcurrent, budget, cachedSettings, released,
                 cancelFrom, cancelAllCall>>

\* downloadController.progress(req, res): the queue is written as 'init' and
\* the response is added to sseClients, in one synchronous run
Progress(c) ==
  /\ sseClients[c].st = "none"
  /\ sseClients' = [sseClients EXCEPT
                      ![c] = [st |-> "open", stream |-> <<InitMessage(queue)>>]]
  /\ emitted' = <<>>
  /\ returned' = NoResult
  /\ UNCHANGED <<queue, activeDownloads, activeProcesses, procs, history, tasks, adds, calls,
                 ops, clock, nextId, maxConcurrent, budget, cachedSettings, released,
                 cancelFrom, cancelAllCall>>

\* the socket of a client is destroyed; its response stays in sseClients
\* until the 'close' handler runs
SocketLost(c) ==
  /\ sseClients[c].st = "open"
  /\ sseClients' = [sseClients EXCEPT ![c].st = "lost"]
  /\ emitted' = <<>>
  /\ returned' = NoResult
  /\ UNCHANGED <<queue, activeDownloads, activeProcesses, procs, history, tasks, adds, calls,
                 ops, clock, nextId, maxConcurrent, budget, cachedSettings, released,
                 cancelFrom, cancelAllCall>>

\* req 'close' handler: sseClients.delete(res)
ReqClose(c) ==
  /\ sseClients[c].st = "lost"
  /\ sseClients' = [sseClients EXCEPT ![c].st = "closed"]
  /\ emitted' = <<>>
  /\ returned' = NoResult
  /\ UNCHANGED <<queue, activeDownloads, activeProcesses, procs, history, tasks, adds, calls,
                 ops, clock, nextId, maxConcurrent, budget, cachedSettings, released,
                 cancelFrom, cancelAllCall>>

\* ------------------------------------------------------ settings update
\* settingsService.update({maxConcurrent: v}) when its COMMIT has resolved:
\* the cache is cleared and getAll() is called
SettingsUpdate(v) ==
  /\ v # maxConcurrent
  /\ ops < budget.ops
  /\ ops' = ops + 1
  /\ maxConcurrent' = v
  /\ cachedSettings' = NoSettings
  /\ tasks' = Spawned(tasks, Task("upd", 0, "none"))
  /\ emitted' = <<>>
  /\ returned' = NoResult
  /\ UNCHANGED <<queue, activeDownloads, activeProcesses, procs, history, adds, calls, clock,
                 nextId, budget, released, cancelFrom>>
  /\ Deliver
  /\ UNCHANGED cancelAllCall

\* the SELECT of a getAll() call runs in the database before its result is
\* delivered
SettingsSelect(t) ==
  /\ t.kind \in {"pn", "upd"}
  /\ t.id = 0
  /\ tasks' = Spawned(Resumed(tasks, t), [t EXCEPT !.id = maxConcurrent])
  /\ emitted' = <<>>
  /\ returned' = NoResult
  /\ UNCHANGED <<queue, activeDownloads, activeProcesses, procs, history, adds, calls, ops,
                 clock, nextId, maxConcurrent, budget, cachedSettings, released, cancelFrom>>
  /\ Deliver
  /\ UNCHANGED cancelAllCall

\* update() when its getAll() has resolved: the cache is filled, update() returns
SettingsUpdated(t) ==
  /\ t.kind = "upd"
  /\ cachedSettings' = Selected(t)
  /\ tasks' = Resumed(tasks, t)
  /\ emitted' = <<>>
  /\ returned' = NoResult
  /\ UNCHANGED <<queue, activeDownloads, activeProcesses, procs, history, adds, calls, ops,
                 clock, nextId, maxConcurrent, budget, released, cancelFrom>>
  /\ Deliver
  /\ UNCHANGED cancelAllCall

\* ------------------------------------------------------ batch submission
BadUrl == 0          \* a URL for which getInfo() rejects
PlaylistUrl == 4     \* the URL that getInfo() resolves to PlaylistMembers

BatchUrls == {BadUrl, 1, PlaylistUrl}

BatchLists == UNION {[1..n -> BatchUrls] : n \in 1..MaxBatch}

\* the items of getInfo(url)
Resolve(url) == IF url = PlaylistUrl THEN PlaylistMembers ELSE <<url>>

\* the `results` object of addBatch() at its start
NoResults(urls, force) ==
  [urls |-> urls, force |-> force, success |-> 0, failed |-> 0, skipped |-> 0,
   items |-> <<>>, skippedItems |-> <<>>, errors |-> <<>>]

\* an add() call made by addBatch() carries the batch: the URLs from the
\* current one on, and the results so far
IsBatch(a) == "rest" \in DOMAIN a

\* addBatch(): the try branch after `await this.add(...)`
Merged(a) ==
  [a.results EXCEPT !.success = @ + Len(a.created),
                    !.skipped = @ + Len(a.skipped),
                    !.items = @ \o a.created,
                    !.skippedItems = @ \o a.skipped]

\* variant of the catch branch below that does not count the failure
FailedUncounted(a) == a.results

\* addBatch(): the catch branch
Failed(a) ==
  [a.results EXCEPT !.failed = @ + 1,
                    !.errors = Append(@, Head(a.rest))]

\* addBatch() after one URL: the loop goes on to the getInfo() of the next
\* URL, or the function returns its results
BatchAdds(c, a, R) ==
  IF Tail(a.rest) = <<>>
  THEN DropAdd(c)
  ELSE [adds EXCEPT ![c] = [a EXCEPT !.st = "binfo", !.rest = Tail(@), !.results = R,
                                     !.members = <<>>, !.n = 0, !.created = <<>>,
                                     !.skipped = <<>>, !.cur = 0, !.curUrl = 0]]

BatchReturned(a, R) == IF Tail(a.rest) = <<>> THEN R ELSE NoResult

\* add() from the top of a loop iteration to the next await or to the return:
\*   members left and not forced -> the two duplicate queries are awaited
\*   members left and forced     -> the item is created
\*   no members left             -> 'added' emitted, processNext() called
\* (a call made by addBatch() returns into its loop)
AddRun(c, a0) ==
  LET a == SkipInMemory(a0, queue) IN
  IF a.members = <<>>
  THEN /\ adds' = IF IsBatch(a) THEN BatchAdds(c, a, Merged(a))
                 ELSE IF c > Len(adds) THEN adds ELSE DropAdd(c)
       /\ returned' = IF IsBatch(a) THEN BatchReturned(a, Merged(a)) ELSE Result(a)
       /\ emitted' = AddedEvents(a.created, queue)
       /\ Commit(IF a.created # <<>> THEN CallProcessNext(Bundle) ELSE Bundle)
       /\ UNCHANGED <<clock, nextId>>
  ELSE IF a.force
  THEN AddCreate(c, a)
  ELSE /\ adds' = SetAdd(c, [a EXCEPT !.st = "db", !.cur = 0])
       /\ returned' = NoResult
       /\ emitted' = <<>>
       /\ UNCHANGED <<queue, tasks, activeDownloads, released, cancelFrom, clock, nextId>>

\* add(url, type, {force}) when getInfo() has resolved
AddStart(sub, force) ==
  /\ calls < budget.adds
  /\ calls' = calls + 1
  /\ AddRun(Len(adds) + 1,
            [st |-> "info", members |-> sub.members, n |-> Len(sub.members), force |-> force,
             pl |-> IF sub.type = "playlist" THEN calls + 1 ELSE 0,
             created |-> <<>>, skipped |-> <<>>, cur |-> 0, curUrl |-> 0])
  /\ UNCHANGED <<activeProcesses, procs, history, ops, maxConcurrent, budget, cachedSettings>>
  /\ Deliver
  /\ UNCHANGED cancelAllCall

\* add() when existsInQueue() and wasDownloadedSuccessfully() have resolved
AddDbCheck(c) ==
  LET a == adds[c]
      u == Head(a.members)
      inQueue == ExistsInQueue(history, u)
      downloaded == WasDownloadedSuccessfully(history, u)
  IN /\ a.st = "db"
     /\ IF inQueue # 0
        THEN AddRun(c, [a EXCEPT !.members = Tail(@),
                                 !.skipped = Append(@, Skip(u, "in_queue", inQueue))])
        ELSE IF downloaded # 0
        THEN AddRun(c, [a EXCEPT !.members = Tail(@),
                                 !.skipped = Append(@, Skip(u, "already_downloaded", downloaded))])
        ELSE AddCreate(c, a)
     /\ UNCHANGED <<calls, activeProcesses, procs, history, ops, maxConcurrent, budget,
                    cachedSettings>>
     /\ Deliver
     /\ UNCHANGED cancelAllCall

\* add() when historyService.add() has resolved: the row exists, the loop goes on
AddSaved(c) ==
  LET a == adds[c] IN
  /\ a.st = "save"
  /\ history' = [history EXCEPT ![a.cur] =
                   [url |-> a.curUrl, status |-> "pending", pl |-> a.pl]]
  /\ AddRun(c, a)
  /\ UNCHANGED <<calls, activeProcesses, procs, ops, maxConcurrent, budget, cachedSettings>>
  /\ Deliver
  /\ UNCHANGED cancelAllCall

\* what the caller of an add() that threw is left with: the error; the
\* items array of the call is kept here for reference
Thrown(a) == [thrown |-> TRUE, n |-> a.n, force |-> a.force, pl |-> a.pl,
              created |-> a.created, skipped |-> a.skipped]

\* add(url) when getInfo() has rejected: the catch rethrows
AddInfoFailed(force) ==
  /\ calls < budget.adds
  /\ calls' = calls + 1
  /\ returned' = Thrown([n |-> 0, force |-> force, pl |-> 0, created |-> <<>>,
                         skipped |-> <<>>])
  /\ emitted' = <<>>
  /\ UNCHANGED <<queue, activeDownloads, activeProcesses, procs, history, tasks, adds, ops,
                 clock, nextId, maxConcurrent, budget, cachedSettings, released, cancelFrom>>
  /\ Deliver
  /\ UNCHANGED cancelAllCall

\* add() when the query it awaits (existsInQueue, wasDownloadedSuccessfully
\* or the INSERT of historyService.add) has rejected: the catch rethrows, to
\* the caller or into the catch branch of addBatch()
AddQueryFailed(c) ==
  LET a == adds[c] IN
  /\ a.st \in {"db", "save"}
  /\ ops < budget.ops
  /\ ops' = ops + 1
  /\ adds' = IF IsBatch(a) THEN BatchAdds(c, a, Failed(a)) ELSE DropAdd(c)
  /\ returned' = IF IsBatch(a) THEN BatchReturned(a, Failed(a)) ELSE Thrown(a)
  /\ emitted' = <<>>
  /\ UNCHANGED <<queue, activeDownloads, activeProcesses, procs, history, tasks, calls,
                 clock, nextId, maxConcurrent, budget, cachedSettings, released, cancelFrom>>
  /\ Deliver
  /\ UNCHANGED cancelAllCall

\* addBatch(urls, 'video', {force}) up to the getInfo() of its first URL
AddBatchStart(urls, force) ==
  /\ calls < budget.adds
  /\ calls' = calls + 1
  /\ adds' = Append(adds, [st |-> "binfo", rest |-> urls, results |-> NoResults(urls, force),
                           members |-> <<>>, n |-> 0, force |-> force, pl |-> 0,
                           created |-> <<>>, skipped |-> <<>>, cur |-> 0, curUrl |-> 0])
  /\ returned' = NoResult
  /\ emitted' = <<>>
  /\ UNCHANGED <<queue, activeDownloads, activeProcesses, procs, history, tasks, ops,
                 clock, nextId, maxConcurrent, budget, cachedSettings, released, cancelFrom>>
  /\ Deliver
  /\ UNCHANGED cancelAllCall

\* add() called by addBatch() when getInfo() has settled: rejected, the catch
\* branch of addBatch() runs; resolved, the loop over the members starts
BatchInfo(c) ==
  LET a == adds[c]
      u == Head(a.rest)
  IN /\ a.st = "binfo"
     /\ IF u = BadUrl
        THEN /\ adds' = BatchAdds(c, a, Failed(a))
             /\ returned' = BatchReturned(a, Failed(a))
             /\ emitted' = <<>>
             /\ UNCHANGED <<queue, tasks, activeDownloads, released, cancelFrom, clock, nextId>>
        ELSE AddRun(c, [a EXCEPT !.st = "info", !.members = Resolve(u),
                                 !.n = Len(Resolve(u))])
     /\ UNCHANGED <<calls, activeProcesses, procs, history, ops, maxConcurrent, budget,
                    cachedSettings>>
     /\ Deliver
     /\ UNCHANGED cancelAllCall

\* ------------------------------------------------------------------ Next
Admission ==
  \/ \E sub \in Submissions, force \in BOOLEAN : AddStart(sub, force)
  \/ \E c \in 1..Len(adds) : AddDbCheck(c)
  \/ \E c \in 1..Len(adds) : AddSaved(c)

Scheduler ==
  \/ \E t \in DOMAIN tasks : ProcessNextResume(t)
  \/ \E t \in DOMAIN tasks : StartDownloadSaved(t)
  \/ \E t \in DOMAIN tasks : DownloadSpawn(t)
  \/ \E t \in DOMAIN tasks : HandleCompleteSaved(t)
  \/ \E t \in DOMAIN tasks : HandleErrorSaved(t)

Worker ==
  \/ \E p \in 1..Len(procs), v \in PVals : Stdout(p, v)
  \/ \E p \in 1..Len(procs) : CloseOk(p)
  \/ \E p \in 1..Len(procs) : CloseFail(p)

WorkerStderr == \E p \in 1..Len(procs) : Stderr(p)

Pausing ==
  \/ \E id \in JobIds : Pause(id)
  \/ \E t \in DOMAIN tasks : PauseSaved(t)

Resuming ==
  \/ \E id \in JobIds : Resume(id)
  \/ \E t \in DOMAIN tasks : ResumeSaved(t)

Cancellation ==
  \/ \E id \in JobIds : Cancel(id)
  \/ \E t \in DOMAIN tasks : CancelledSaved(t)
  \/ \E t \in DOMAIN tasks : CancelPendingSaved(t)

Retrying ==
  \/ \E id \in JobIds : RetryRead(id)
  \/ \E t \in DOMAIN tasks : RetryInsert(t)

Next ==
  \/ Admission
  \/ Scheduler
  \/ Worker
  \/ WorkerStderr
  \/ Pausing
  \/ Resuming
  \/ Cancellation
  \/ Retrying

Spec == Init /\ [][Next]_vars

\* submissions and workers only
NextAdmit == Admission \/ Scheduler \/ Worker

SpecAdmit == InitAdmit /\ [][NextAdmit]_vars

\* submissions, workers and their stderr
NextPair == Admission \/ Scheduler \/ Worker \/ WorkerStderr

SpecPair == InitPair /\ [][NextPair]_vars

\* pause and cancel requests against one submission
NextControl == Admission \/ Scheduler \/ Worker \/ Pausing \/ Cancellation

SpecControl == InitOps /\ [][NextControl]_vars

\* stderr chunks and retry requests against one submission
NextRetry == Admission \/ Scheduler \/ Worker \/ WorkerStderr \/ Retrying

SpecRetry == InitOps /\ [][NextRetry]_vars

\* single videos submitted again and again, with and without force
AdmissionRepeat ==
  \/ \E u \in Urls, force \in BOOLEAN : AddStart([type |-> "video", members |-> <<u>>], force)
  \/ \E c \in 1..Len(adds) : AddDbCheck(c)
  \/ \E c \in 1..Len(adds) : AddSaved(c)

NextRepeat == AdmissionRepeat \/ Scheduler \/ Worker

SpecRepeat == InitRepeat /\ [][NextRepeat]_vars

\* submissions without force whose type argument is the caller's choice: the
\* playlist URL is also submitted with the default type 'video'
AdmissionTyped ==
  \/ \E sub \in Submissions \cup {[type |-> "video", members |-> PlaylistMembers]} :
       AddStart(sub, FALSE)
  \/ \E c \in 1..Len(adds) : AddDbCheck(c)
  \/ \E c \in 1..Len(adds) : AddSaved(c)

NextTyped == AdmissionTyped \/ Scheduler \/ Worker

SpecTyped == InitAdmit /\ [][NextTyped]_vars

\* pause and resume requests, accepted or rejected, against one submission
Rejecting ==
  \/ \E id \in JobIds : PauseRejected(id)
  \/ \E id \in JobIds : ResumeRejected(id)

NextReject == Admission \/ Scheduler \/ Worker \/ Pausing \/ Resuming \/ Rejecting

SpecReject == InitOps /\ [][NextReject]_vars

\* cancel and retry requests, accepted or rejected, against one submission
RetryRejecting == \E id \in JobIds : RetryRejected(id)

NextRetryCalls ==
  Admission \/ Scheduler \/ Worker \/ Cancellation \/ Retrying \/ RetryRejecting

SpecRetryCalls == InitOps /\ [][NextRetryCalls]_vars

\* one addBatch() call whose queries may fail once
Batching ==
  \/ \E urls \in BatchLists, force \in BOOLEAN : AddBatchStart(urls, force)
  \/ \E c \in 1..Len(adds) : BatchInfo(c)
  \/ \E c \in 1..Len(adds) : AddDbCheck(c)
  \/ \E c \in 1..Len(adds) : AddSaved(c)
  \/ \E c \in 1..Len(adds) : AddQueryFailed(c)

NextBatch == Batching \/ Scheduler \/ Worker

SpecBatch == Init /\ [][NextBatch]_vars

\* one add() call whose getInfo() or queries may fail
Failing ==
  \/ \E force \in BOOLEAN : AddInfoFailed(force)
  \/ \E c \in 1..Len(adds) : AddQueryFailed(c)

NextFail == Admission \/ Failing \/ Scheduler \/ Worker

SpecFail == Init /\ [][NextFail]_vars

\* one submission and one settings update
Settings ==
  \/ \E v \in 1..MaxLimit : SettingsUpdate(v)
  \/ \E t \in DOMAIN tasks : SettingsSelect(t)
  \/ \E t \in DOMAIN tasks : SettingsUpdated(t)

NextSettings == Admission \/ Scheduler \/ Worker \/ Settings

SpecSettings == Init /\ [][NextSettings]_vars

\* one submission of a single video, watched by progress-stream clients
Streaming ==
  \/ \E c \in Clients : Progress(c)
  \/ \E c \in Clients : SocketLost(c)
  \/ \E c \in Clients : ReqClose(c)

InitStream == Start /\ budget = [adds |-> 1, created |-> 1, ops |-> 0]

NextStream == AdmissionRepeat \/ Scheduler \/ Worker \/ Streaming

SpecStream == InitStream /\ [][NextStream]_vars

\* cancel and clear-completed requests against one submission
NextClear == Admission \/ Scheduler \/ Worker \/ Cancellation \/ ClearCompleted

SpecClear == InitOps /\ [][NextClear]_vars

\* pause requests and one cancelAll() against one submission
CancellingAll ==
  \/ CancelAll
  \/ CancelAllSaved
  \/ \E t \in DOMAIN tasks : CancelledSaved(t)

NextCancelAll == Admission \/ Scheduler \/ Worker \/ Pausing \/ CancellingAll

SpecCancelAll == InitOps /\ [][NextCancelAll]_vars

\* one submission and one rejected status write
WriteFailing ==
  \/ \E t \in DOMAIN tasks : StartDownloadWriteFailed(t)
  \/ \E t \in DOMAIN tasks : HandleCompleteWriteFailed(t)
  \/ \E t \in DOMAIN tasks : HandleErrorWriteFailed(t)

NextWriteFail == Admission \/ Scheduler \/ Worker \/ WriteFailing

SpecWriteFail == Init /\ [][NextWriteFail]_vars

\* MaxAdds submissions of single videos under limit 1, every one of which
\* can get its process, and one pause request
InitLive ==
  /\ Start
  /\ maxConcurrent = 1
  /\ budget = [adds |-> MaxAdds, created |-> MaxProcs, ops |-> 1]

\* the k-th submission: a video whose getInfo entry names the uploader,
\* then one whose entry does not, in turn
LiveUrl(k) == IF k % 2 = 1 THEN 1 ELSE 3

AdmissionLive ==
  \/ AddStart([type |-> "video", members |-> <<LiveUrl(calls + 1)>>], FALSE)
  \/ \E c \in 1..Len(adds) : AddDbCheck(c)
  \/ \E c \in 1..Len(adds) : AddSaved(c)

NextLive == AdmissionLive \/ Scheduler \/ Worker \/ Pausing \/ Resuming

\* What the event loop guarantees: an awaited query resolves and the
\* continuation registered on it runs.  What the claim assumes: a process
\* that is not suspended exits, and a paused job is resumed.
Resolving == \E c \in 1..Len(adds) : AddDbCheck(c) \/ AddSaved(c)

Saving == \E t \in DOMAIN tasks : PauseSaved(t) \/ ResumeSaved(t)

Exiting == \E p \in 1..Len(procs) : CloseOk(p) \/ CloseFail(p)

Continuing == \E id \in JobIds : Resume(id)

Fairness ==
  /\ WF_vars(Resolving)
  /\ WF_vars(Scheduler)
  /\ WF_vars(Saving)
  /\ WF_vars(Exiting)
  /\ WF_vars(Continuing)

SpecLive == InitLive /\ [][NextLive]_vars /\ Fairness

\* ------------------------------------------------------------ properties

\* C1: in every reachable state the number of jobs whose status is
\* 'downloading' is at most the configured maxConcurrent
C1_RunningWithinLimit ==
  Cardinality({i \in 1..Len(queue) : queue[i].status = "downloading"}) <= maxConcurrent

\* C2: a job id never has two worker processes alive at once (a process that
\* was sent SIGTERM is not counted)
C2_OneLiveWorker ==
  \A id \in JobIds :
    Cardinality({p \in 1..Len(procs) :
                   procs[p].id = id /\ procs[p].st \in {"run", "stop"}}) <= 1

\* C3: for a job that was paused when cancel(id) ran, the ledger is
\* decremented at most once on behalf of that job (cancel(), the 'cancelled'
\* listener and the exit handlers counted together)
C3_PausedCancelReleasesOnce ==
  \A id \in JobIds : cancelFrom[id] = "paused" => released[id] <= 1

\* C4: no progress event and no statusChange event is emitted for a job whose
\* registry status was completed, error or cancelled before the step (the
\* statusChange that announces that very status is allowed)
C4_QuietAfterTerminal ==
  \A k \in 1..Len(emitted) :
    LET e == emitted[k] IN
    (e.type \in {"progress", "statusChange"} /\ e.was \in Terminal)
      => (e.type = "statusChange" /\ e.status = e.was)

\* C6: every step changes a job's status along pending -> downloading,
\* downloading <-> paused, downloading|paused -> completed|error|cancelled,
\* pending -> cancelled; a job in completed, error or cancelled changes status
\* only in a step that creates its new item (retry).  'converting' is read as
\* downloading; leaving the registry is not a status change
C6_StatusMachine ==
  [][\A id \in JobIds :
       LET norm(s) == IF s = "converting" THEN "downloading" ELSE s
           a == norm(StatusOf(queue, id))
           b == norm(StatusOf(queue', id))
       IN \/ a = b
          \/ b = "absent"
          \/ a = "pending" /\ b \in {"downloading", "cancelled"}
          \/ a = "downloading" /\ b \in {"paused", "completed", "error", "cancelled"}
          \/ a = "paused" /\ b \in {"downloading", "completed", "error", "cancelled"}
          \/ a \in {"absent", "error", "cancelled"} /\ b \in {"pending", "downloading"}
               /\ clock' # clock]_vars

\* C5: the percentage of a progress event is never below the progress the
\* job had before the event (which start and retry reset to 0)
C5_ProgressMonotone ==
  \A k \in 1..Len(emitted) :
    emitted[k].type = "progress" => emitted[k].progress >= emitted[k].wasProgress

\* C7: with maxConcurrent 1 and two single-video jobs 1 (submitted first)
\* and 2, job 2 is pending whenever job 1 is downloading or paused
C7_SecondWaitsForFirst ==
  (/\ maxConcurrent = 1
   /\ Has(queue, 1) /\ Has(queue, 2)
   /\ Get(queue, 1).pl = 0 /\ Get(queue, 2).pl = 0
   /\ StatusOf(queue, 1) \in {"downloading", "paused"})
    => StatusOf(queue, 2) = "pending"

\* C8: when no handler is in flight (no add() call running, no continuation
\* suspended), no job is pending while fewer than maxConcurrent jobs are
\* downloading, converting or paused
C8_NoIdleSlotWithPending ==
  (tasks = EmptyBag /\ adds = <<>>)
    => ~(/\ HasPending(queue)
         /\ Cardinality({i \in 1..Len(queue) :
                           queue[i].status \in {"downloading", "converting", "paused"}})
              < maxConcurrent)

\* C9: a pending job that a step starts (startDownload() runs for it) has the
\* oldest createdAt of all jobs that were pending before the step
C9_StartsOldestPending ==
  [][\A id \in JobIds :
       (/\ StatusOf(queue, id) = "pending"
        /\ StatusOf(queue', id) = "downloading"
        /\ \E k \in {"sd1", "sd1d"} :
              CopiesIn(Task(k, id, "live"), tasks') > CopiesIn(Task(k, id, "live"), tasks))
         => \A j \in 1..Len(queue) :
              queue[j].status = "pending" => Get(queue, id).createdAt <= queue[j].createdAt]_vars

\* C10: add(url) of a single video without force, arriving while exactly one
\* job with that url is in the registry as pending, downloading or paused and
\* that job is pending, returns at once with no created item and one skip
\* 'in_queue' whose existingId is that job's id; registry, history and the id
\* counter are unchanged
C10_DuplicateOfPendingSkipped ==
  [][\A u \in Urls : \A i \in 1..Len(queue) :
       (/\ AddStart([type |-> "video", members |-> <<u>>], FALSE)
        /\ queue[i].url = u
        /\ queue[i].status = "pending"
        /\ \A j \in 1..Len(queue) :
              (queue[j].url = u /\ queue[j].status \in Active) => j = i)
         => /\ returned' = [n |-> 1, force |-> FALSE, pl |-> 0, created |-> <<>>,
                            skipped |-> <<Skip(u, "in_queue", queue[i].id)>>]
            /\ queue' = queue
            /\ history' = history
            /\ nextId' = nextId
            /\ adds' = adds]_vars

\* an add() call has just returned one skip 'in_queue' that names a pending job
C10_Witness ==
  /\ returned.n = 1
  /\ ~returned.force
  /\ returned.created = <<>>
  /\ Len(returned.skipped) = 1
  /\ returned.skipped[1].reason = "in_queue"
  /\ StatusOf(queue, returned.skipped[1].existingId) = "pending"
  /\ calls = 2

\* C11: when the duplicate queries of a single-video add() without force
\* resolve while the downloads table holds a completed row of the url and the
\* registry holds no job of that url outside completed, error and cancelled,
\* the call returns no created item and exactly one skip 'already_downloaded';
\* registry, table and id counter are unchanged
C11_CompletedUrlSkipped ==
  [][\A c \in 1..Len(adds) : \A r \in JobIds :
       (/\ AddDbCheck(c)
        /\ adds[c].n = 1
        /\ history[r].url = Head(adds[c].members)
        /\ history[r].status = "completed"
        /\ \A j \in 1..Len(queue) :
              queue[j].url = Head(adds[c].members) => queue[j].status \in Terminal)
         => /\ returned'.created = <<>>
            /\ Len(returned'.skipped) = 1
            /\ returned'.skipped[1].reason = "already_downloaded"
            /\ returned'.skipped[1].url = Head(adds[c].members)
            /\ queue' = queue
            /\ history' = history
            /\ nextId' = nextId]_vars

\* C12: an add() call with force skips nothing: every step of it that has a
\* member left creates the item of that member, pending with progress 0, under
\* a new id, whatever the registry and the table hold; in flight its created
\* items and remaining members add up to the resolved members, and it returns
\* one created item per member and no skip
C12_ForceCreatesEveryMember ==
  [][LET NewJob(u) ==
           /\ nextId' = nextId + 1
           /\ ~Has(queue, nextId)
           /\ Len(queue') = Len(queue) + 1
           /\ Has(queue', nextId)
           /\ Get(queue', nextId).url = u
           /\ Get(queue', nextId).status = "pending"
           /\ Get(queue', nextId).progress = 0
     IN /\ \A c \in 1..Len(adds') :
             adds'[c].force =>
               /\ adds'[c].skipped = <<>>
               /\ Len(adds'[c].created) + Len(adds'[c].members) = adds'[c].n
        /\ returned'.force =>
             /\ returned'.skipped = <<>>
             /\ Len(returned'.created) = returned'.n
        /\ \A sub \in Submissions : AddStart(sub, TRUE) => NewJob(Head(sub.members))
        /\ \A c \in 1..Len(adds) :
             (AddSaved(c) /\ adds[c].force /\ adds[c].members # <<>>)
               => NewJob(Head(adds[c].members))]_vars

\* a forced add() has returned its created items while another job of the
\* same url is in the registry
C12_Witness ==
  /\ returned.force
  /\ returned.created # <<>>
  /\ \E i, j \in 1..Len(queue) :
       /\ i # j
       /\ queue[i].url = queue[j].url
       /\ \E k \in 1..Len(returned.created) : returned.created[k] = queue[i].id
       /\ \A k \in 1..Len(returned.created) : returned.created[k] # queue[j].id

\* C13 as stated: a returned add() result has created count plus skip count
\* equal to the number of resolved members, and every created job is in the
\* registry with status pending and has a row in the downloads table
C13_CreatedArePendingAtReturn ==
  returned.n > 0 =>
    /\ Len(returned.created) + Len(returned.skipped) = returned.n
    /\ \A k \in 1..Len(returned.created) :
         /\ StatusOf(queue, returned.created[k]) = "pending"
         /\ history[returned.created[k]].status # "none"

\* C13 amended: every item add() creates enters the registry as pending with
\* progress 0; a returned result names every resolved member exactly once,
\* as a created item or as a skip with reason in_queue or already_downloaded,
\* and every created item has its row in the downloads table
C13_EveryMemberReported ==
  [][/\ nextId' = nextId + 1 =>
          /\ Has(queue', nextId)
          /\ Get(queue', nextId).status = "pending"
          /\ Get(queue', nextId).progress = 0
     /\ returned'.n > 0 =>
          LET r == returned'
              createdUrls == {history'[r.created[k]].url : k \in 1..Len(r.created)}
              skippedUrls == {r.skipped[k].url : k \in 1..Len(r.skipped)}
          IN /\ Len(r.created) + Len(r.skipped) = r.n
             /\ Cardinality(createdUrls \cup skippedUrls) = r.n
             /\ r.n = Len(PlaylistMembers) =>
                  createdUrls \cup skippedUrls = {PlaylistMembers[k] : k \in 1..r.n}
             /\ \A k \in 1..Len(r.skipped) :
                  r.skipped[k].reason \in {"in_queue", "already_downloaded"}
             /\ \A k \in 1..Len(r.created) :
                  /\ history'[r.created[k]].status # "none"
                  /\ \A l \in 1..Len(r.created) : r.created[l] = r.created[k] => l = k]_vars

\* an add() call has returned a result with created items and skips
C13_Witness ==
  /\ returned.created # <<>>
  /\ returned.skipped # <<>>
  /\ Len(returned.created) + Len(returned.skipped) = returned.n

\* C14: when add() returns for a submission that resolved to 3 members with
\* member 2 skipped as 'in_queue' against a pending job, it reports 2 created
\* items, and these carry one playlistId that is set and that no other row
\* of the downloads table carries
C14_CollectionSharesOwnId ==
  (/\ returned.n = 3
   /\ Len(returned.skipped) = 1
   /\ returned.skipped[1].url = PlaylistMembers[2]
   /\ returned.skipped[1].reason = "in_queue"
   /\ StatusOf(queue, returned.skipped[1].existingId) = "pending")
    => /\ Len(returned.created) = 2
       /\ LET made == {returned.created[k] : k \in 1..Len(returned.created)} IN
          \E p \in 1..(MaxAdds + 1) :
            /\ \A id \in made : history[id].pl = p
            /\ \A id \in JobIds \ made : history[id].pl # p

\* C15: a pause(id) call made while the item's status is not 'downloading',
\* and a resume(id) call made while it is not 'paused', changes neither the
\* queue, the process handles, the processes, activeDownloads, the downloads
\* table nor the writes in flight, and emits nothing
C15_RejectedCallTouchesNothing ==
  [][\A id \in JobIds :
       (\/ (PauseRejected(id) \/ Pause(id)) /\ StatusOf(queue, id) # "downloading"
        \/ (ResumeRejected(id) \/ Resume(id)) /\ StatusOf(queue, id) # "paused")
         => /\ UNCHANGED <<queue, activeProcesses, procs, activeDownloads, history, tasks>>
            /\ emitted' = <<>>]_vars

\* both requests of the budget were rejected: the only job was never started
C15_Witness ==
  /\ ops = MaxOps
  /\ nextId = 2
  /\ Len(queue) = 1
  /\ queue[1].status = "pending"
  /\ history[1].status = "pending"

\* C16: a retry(id) call that reads a row with status error or cancelled
\* goes on to the 'pending' write, and when that write resolves the queue
\* holds the item with progress 0, whatever it held for that id before, and
\* processNext() has been called (the item or an older pending one is
\* started, or the limit is reached, or the settings query is awaited); a call that
\* reads no row or any other status changes neither the queue,
\* activeDownloads, the downloads table nor the writes in flight
C16_RetryDecidedOnRow ==
  [][/\ \A id \in JobIds :
          (RetryRead(id) \/ RetryRejected(id)) =>
            IF history[id].status \in {"error", "cancelled"}
            THEN /\ tasks' = Spawned(tasks, Task("retry", id, "none"))
                 /\ UNCHANGED <<queue, activeDownloads, history>>
            ELSE /\ UNCHANGED <<queue, activeDownloads, history, tasks, activeProcesses>>
                 /\ emitted' = <<>>
     /\ \A t \in DOMAIN tasks :
          RetryInsert(t) =>
            /\ Has(queue', t.id)
            /\ ProgressOf(queue', t.id) = 0
            /\ history'[t.id].status = "pending"
            /\ StatusOf(queue', t.id) \in {"pending", "downloading"}
            /\ StatusOf(queue', t.id) = "pending" =>
                 \/ Task("pn", 0, "none") \in DOMAIN tasks'
                 \/ activeDownloads' >= Limit
                 \/ activeDownloads' = activeDownloads + 1]_vars

\* a retry of job 1 has put a fresh pending item into the queue
C16_Witness ==
  /\ RetriesDone = 1
  /\ StatusOf(queue, 1) = "pending"
  /\ Get(queue, 1).createdAt = clock
  /\ history[1].status = "pending"

\* C17: every item whose status is 'downloading' has its process handle in
\* activeProcesses, so that pause(id) and cancel(id) find it
C17_RunningHasHandle ==
  \A i \in 1..Len(queue) :
    queue[i].status = "downloading" => activeProcesses[queue[i].id].proc # 0

\* C18: when a statusChange, complete, error or removed event is emitted,
\* the downloads table already holds the status the event announces
\* ('cancelled' for removed)
C18_WrittenBeforeEmitted ==
  \A k \in 1..Len(emitted) :
    LET e == emitted[k] IN
    CASE e.type = "statusChange" -> history[e.id].status = e.status
      [] e.type = "complete" -> history[e.id].status = "completed"
      [] e.type = "error" -> history[e.id].status = "error"
      [] e.type = "removed" -> history[e.id].status = "cancelled"
      [] OTHER -> TRUE

\* C19: a job that went to 'error' has had activeDownloads decremented on
\* its behalf at most once since it was started
C19_FailureReleasesOneSlot ==
  \A id \in JobIds : StatusOf(queue, id) = "error" => released[id] <= 1

\* C20: an item whose status is completed, error or cancelled has no live
\* process and no handle in activeProcesses
C20_TerminalHasNoWorker ==
  \A i \in 1..Len(queue) :
    queue[i].status \in Terminal =>
      /\ activeProcesses[queue[i].id].proc = 0
      /\ \A p \in 1..Len(procs) : procs[p].id = queue[i].id => ~Alive(procs[p])

\* total number of members of the URLs of a list that getInfo() resolves
RECURSIVE ResolvedMembers(_)
ResolvedMembers(urls) ==
  IF urls = <<>> THEN 0
  ELSE (IF Head(urls) = BadUrl THEN 0 ELSE Len(Resolve(Head(urls))))
         + ResolvedMembers(Tail(urls))

\* C21: the results addBatch() returns count as failed the URLs whose add()
\* threw (the unreachable URLs of the list plus the calls whose query
\* failed), with one errors entry each, in list order; success and skipped
\* are the lengths of items and skippedItems, which with no failed query
\* add up to the members of all reachable URLs; every created item is in
\* the queue, in creation order
C21_BatchCountsEveryUrl ==
  "failed" \in DOMAIN returned =>
    LET r == returned
        unreachable(u) == u = BadUrl
    IN /\ r.failed = Len(SelectSeq(r.urls, unreachable)) + ops
       /\ Len(r.errors) = r.failed
       /\ ops = 0 => r.errors = SelectSeq(r.urls, unreachable)
       /\ r.success = Len(r.items)
       /\ r.skipped = Len(r.skippedItems)
       /\ r.success + r.skipped + r.failed >= Len(r.urls)
       /\ ops = 0 => r.success + r.skipped = ResolvedMembers(r.urls)
       /\ \A k \in 1..Len(r.items) : Has(queue, r.items[k])
       /\ \A k \in 1..(Len(r.items) - 1) : r.items[k] < r.items[k + 1]

\* a batch whose last URL is unreachable has returned with the jobs of its
\* earlier URLs created
C21_Witness ==
  /\ "failed" \in DOMAIN returned
  /\ returned.urls[Len(returned.urls)] = BadUrl
  /\ returned.failed >= 1
  /\ returned.success >= 1
  /\ \A k \in 1..Len(returned.items) : Has(queue, returned.items[k])

\* C22: when add() has thrown, none of the items the call had made is in
\* the queue or in the downloads table
C22_FailedAddCreatesNothing ==
  "thrown" \in DOMAIN returned =>
    \A k \in 1..Len(returned.created) :
      /\ ~Has(queue, returned.created[k])
      /\ history[returned.created[k]].status = "none"

\* C23: once no update() is in progress, the cache that processNext()
\* reads is empty or holds the maxConcurrent of the settings table
C23_LimitReadFresh ==
  (\A t \in DOMAIN tasks : t.kind # "upd")
    => cachedSettings \in {NoSettings, maxConcurrent}

\* C24: the first thing written to a client that connects is the 'init'
\* message with the queue as it is at that moment, and from then on every
\* step appends to its stream exactly the events emitted in that step, in
\* emission order
C24_SnapshotThenEveryEvent ==
  [][\A c \in Clients :
       /\ (sseClients[c].st = "none" /\ sseClients'[c].st = "open")
            => /\ sseClients'[c].stream = <<InitMessage(queue')>>
               /\ emitted' = <<>>
       /\ (sseClients[c].st = "open" /\ sseClients'[c].st = "open")
            => sseClients'[c].stream = sseClients[c].stream \o Messages(emitted')]_vars

\* a client that connected while the job was in the queue has received
\* events after its snapshot
C24_Witness ==
  \E c \in Clients :
    /\ sseClients[c].st = "open"
    /\ Len(sseClients[c].stream) >= 3
    /\ sseClients[c].stream[1].event = "init"
    /\ sseClients[c].stream[1].items # <<>>
    /\ \A k \in 2..Len(sseClients[c].stream) : sseClients[c].stream[k].event # "init"

\* C25: while the socket of another client is destroyed, every step still
\* writes the events it emits to each connected client, and the handlers
\* that emit 'complete' and 'error' still decrement activeDownloads for
\* their job and call processNext()
C25_LostClientBlocksNothing ==
  [][(\E d \in Clients : sseClients[d].st = "lost") =>
       /\ \A c \in Clients :
            (sseClients[c].st = "open" /\ sseClients'[c].st = "open")
              => sseClients'[c].stream = sseClients[c].stream \o Messages(emitted')
       /\ \A t \in DOMAIN tasks :
            (HandleCompleteSaved(t) \/ HandleErrorSaved(t))
              => /\ released'[t.id] = released[t.id] + 1
                 /\ cachedSettings = NoSettings => Task("pn", 0, "none") \in DOMAIN tasks']_vars

\* the first client's socket is destroyed and the second client has
\* received the 'complete' event
C25_Witness ==
  /\ sseClients[1].st = "lost"
  /\ sseClients[2].st = "open"
  /\ \E k \in 1..Len(sseClients[2].stream) : sseClients[2].stream[k].event = "complete"
  /\ \A k \in 1..Len(sseClients[1].stream) : sseClients[1].stream[k].event # "complete"

\* C26: an item whose status is 'paused' keeps that status and its progress
\* in every step other than a resume(id) or cancel(id) call for it
C26_PausedIsFrozen ==
  [][\A id \in JobIds :
       (StatusOf(queue, id) = "paused" /\ ~Resume(id) /\ ~Cancel(id))
         => /\ StatusOf(queue', id) = "paused"
            /\ ProgressOf(queue', id) = ProgressOf(queue, id)]_vars

\* C27: only an item whose status is 'error' carries an error text
C27_ErrorTextOnlyInError ==
  \A i \in 1..Len(queue) : queue[i].err => queue[i].status = "error"

\* C28: an id that is in the queue before and after a step maps to the same
\* item object (an item keeps its createdAt); no step sets a new item under
\* an id that is present
C28_NoEntryReplaced ==
  [][\A id \in JobIds :
       (Has(queue, id) /\ Has(queue', id))
         => Get(queue', id).createdAt = Get(queue, id).createdAt]_vars

\* C29: cancel(id) of a pending item changes neither activeDownloads nor a
\* handle nor a process, and once it has run the item is never started: it
\* stays pending until it leaves the queue, no handle is registered for it
C29_PendingCancelIsFinal ==
  [][\A id \in JobIds :
       /\ (Cancel(id) /\ StatusOf(queue, id) = "pending")
            => UNCHANGED <<activeDownloads, activeProcesses, procs>>
       /\ cancelFrom[id] = "pending"
            => /\ StatusOf(queue', id) \in {"pending", "absent"}
               /\ activeProcesses'[id] = NoHandle]_vars

\* C30: activeDownloads is never negative; when no add() call is running,
\* no continuation is suspended and no process of a job that has left the
\* queue is still to close, it equals the number of items that are
\* downloading, converting or paused; and it is decremented at most once on
\* behalf of a job since that job was last started
C30_LedgerMatchesRunning ==
  /\ activeDownloads >= 0
  /\ ( /\ tasks = EmptyBag
       /\ adds = <<>>
       /\ \A p \in 1..Len(procs) : Alive(procs[p]) => Has(queue, procs[p].id) )
       => activeDownloads =
            Cardinality({i \in 1..Len(queue) :
                           queue[i].status \in {"downloading", "converting", "paused"}})
  /\ \A id \in JobIds : released[id] <= 1

\* C31: once cancel(id) has returned for a job that was downloading,
\* converting or paused and the job has not been put back by a retry, no
\* process of that job is running or suspended without having been sent
\* SIGTERM, whether it was spawned before the cancel or after it
C31_CancelledHasNoWorker ==
  \A id \in JobIds :
    (cancelFrom[id] \in {"downloading", "converting", "paused"} /\ ~Has(queue, id))
      => \A p \in 1..Len(procs) :
           procs[p].id = id => procs[p].st \notin {"run", "stop"}

\* C32: for every job that has a handle in activeProcesses, the handle's
\* paused flag is set exactly when the job's status in the queue is 'paused'
C32_PausedFlagMatchesStatus ==
  \A id \in JobIds :
    activeProcesses[id].proc # 0
      => (activeProcesses[id].paused <=> StatusOf(queue, id) = "paused")

\* C33: when every submission is made without force, the queue never
\* holds two items with the same url that are both pending, downloading or
\* paused
C33_OneActiveJobPerUrl ==
  \A i, j \in 1..Len(queue) :
    (i # j /\ queue[i].status \in Active /\ queue[j].status \in Active)
      => queue[i].url # queue[j].url

\* C34: when no add() call is running and no continuation is suspended,
\* every item in the queue has in the downloads table the status it has in
\* the queue ('converting' counting as 'downloading'), and every job that
\* cancel() removed from the queue has the status 'cancelled' there
C34_HistoryAgreesWithQueue ==
  (tasks = EmptyBag /\ adds = <<>>)
    => \A id \in JobIds :
         /\ Has(queue, id)
              => history[id].status =
                   (IF StatusOf(queue, id) = "converting" THEN "downloading"
                    ELSE StatusOf(queue, id))
         /\ (~Has(queue, id) /\ cancelFrom[id] # "none")
              => history[id].status = "cancelled"

\* C39: the step of clearCompleted() (the one that emits 'cleared') leaves
\* in the queue exactly the entries whose status is not completed, error or
\* cancelled, each as it was and in the same order, and changes neither
\* activeDownloads nor a handle nor a process nor a row of the downloads table
C39_ClearRemovesOnlyTerminal ==
  [][(emitted' # <<>> /\ emitted'[1].type = "cleared")
       => /\ queue' = SelectSeq(queue, LAMBDA e : e.status \notin Terminal)
          /\ UNCHANGED <<activeDownloads, activeProcesses, procs, history>>]_vars

\* clearCompleted() has just removed a finished job and kept an unfinished one
C39_Witness ==
  /\ emitted # <<>>
  /\ emitted[1].type = "cleared"
  /\ \E i \in 1..Len(queue) : queue[i].status \in {"pending", "downloading", "paused"}
  /\ \E id \in JobIds :
       /\ history[id].status \in {"completed", "error"}
       /\ cancelFrom[id] = "none"
       /\ ~Has(queue, id)
  /\ activeDownloads > 0

\* C35: every step that takes an id out of the queue emits 'removed' for
\* that id, and every other event the controller forwards is about a job
\* that is in the queue after the step, so that the ids a client holds after
\* applying 'added' and 'removed' to its snapshot are those of the queue
C35_RemovedIsLastWord ==
  [][/\ \A id \in JobIds :
          (Has(queue, id) /\ ~Has(queue', id))
            => \E k \in 1..Len(emitted') :
                 emitted'[k].type = "removed" /\ emitted'[k].id = id
     /\ \A k \in 1..Len(emitted') :
          (emitted'[k].type \in Forwarded \ {"removed"})
            => Has(queue', emitted'[k].id)]_vars

\* C38: once a cancelAll() that was called with no add() in flight has
\* returned, and no submission follows it, none of the jobs that were in the
\* queue at the call is pending, downloading, converting or paused, none of
\* them has a process that is running or suspended without having been sent
\* SIGTERM, the count returned is the number of those jobs that left the
\* queue, and activeDownloads is 0
C38_CancelAllLeavesNothingRunning ==
  (cancelAllCall.st = "done" /\ cancelAllCall.solo)
    => /\ \A id \in cancelAllCall.had :
            /\ StatusOf(queue, id) \notin {"pending", "downloading", "converting", "paused"}
            /\ \A p \in 1..Len(procs) :
                 procs[p].id = id => procs[p].st \notin {"run", "stop"}
       /\ cancelAllCall.count = Cardinality({id \in cancelAllCall.had : ~Has(queue, id)})
       /\ activeDownloads = 0

\* C40: when cancel(id) reaches youtubeService.cancel(id) (the job is
\* downloading or paused) and the job has a handle, the process behind it,
\* running or suspended, has been ended by SIGTERM, after a SIGCONT if the
\* handle was paused, the handle is gone and the 'cancelled' listener has
\* run; without a handle no process and no handle changes and the listener
\* does not run
C40_CancelSignalsInOrder ==
  [][\A id \in JobIds :
       (Cancel(id) /\ StatusOf(queue, id) \in {"downloading", "paused"})
         => LET h == activeProcesses[id]
            IN IF h.proc # 0
               THEN /\ procs[h.proc].st = (IF h.paused THEN "stop" ELSE "run")
                    /\ procs'[h.proc].st = "term"
                    /\ activeProcesses'[id] = NoHandle
                    /\ \E t \in DOMAIN tasks' : t.kind = "cl" /\ t.id = id
               ELSE /\ UNCHANGED <<procs, activeProcesses>>
                    /\ \A t \in DOMAIN tasks' :
                         (t.kind = "cl" /\ t.id = id) => t \in DOMAIN tasks]_vars

\* a paused job has been cancelled and its process ended
C40_Witness ==
  \E id \in JobIds :
    /\ cancelFrom[id] = "paused"
    /\ activeProcesses[id] = NoHandle
    /\ \E p \in 1..Len(procs) : procs[p].id = id /\ procs[p].st = "term"

\* C36: also when a status write of startDownload, handleComplete or
\* handleError has been rejected, once no add() call is running, no
\* continuation is suspended and no process is alive, no slot is held:
\* activeDownloads is not above 0
C36_NoSlotWithoutWorker ==
  ( /\ tasks = EmptyBag
    /\ adds = <<>>
    /\ \A p \in 1..Len(procs) : ~Alive(procs[p]) )
    => activeDownloads <= 0

\* a process is suspended under a job that resume(id) rejects: this worker
\* never exits
NeverExits ==
  \E p \in 1..Len(procs) :
    procs[p].st = "stop" /\ StatusOf(queue, procs[p].id) # "paused"

\* C37: with every awaited query resolving, every continuation running,
\* every paused job resumed and every started process exiting, an item that
\* is pending is eventually not pending any more, and an item that is
\* downloading, converting or paused is eventually completed, error or
\* cancelled
C37_EveryJobFinishes ==
  \A id \in 1..MaxProcs :
    /\ (StatusOf(queue, id) = "pending")
         ~> (StatusOf(queue, id) # "pending" \/ NeverExits)
    /\ (StatusOf(queue, id) \in {"downloading", "converting", "paused"})
         ~> (StatusOf(queue, id) \in Terminal \/ NeverExits)

\* two jobs under limit 1 and a pause request: the second was pending while
\* the first held the slot, and both have finished
C37_Witness ==
  /\ Len(queue) = 2
  /\ \A i \in 1..Len(queue) : queue[i].status \in Terminal
  /\ Len(procs) = 2
  /\ \A p \in 1..Len(procs) : procs[p].st = "closed"
  /\ tasks = EmptyBag
  /\ ops = 1
  /\ history[1].status \in Terminal

====
